---- MODULE Spec2Model ----
(***************************************************************************)
(* Retry executor, retry-policy resolution and the HTTP facades of the     *)
(* http-service repository.                                                *)
(*                                                                         *)
(* A "call" is one logical call made by a client: a verb of one of the     *)
(* facades (HttpService, the three ApiService versions) or a direct call   *)
(* of Retry.retryAsync.  JavaScript runs a call atomically between two     *)
(* awaits, so a call has two suspension points: "op" (awaiting the         *)
(* operation) and "wait" (awaiting the inter-attempt timer).               *)
(***************************************************************************)
EXTENDS Integers, Sequences, FiniteSets, TLC

VARIABLES
    calls,      \* per logical call: its arguments, executor frame and observations
    nextGuid,   \* number of ids Guid.create has handed out so far
    noRetry,    \* the static default policy shared by every facade instance
    formatted,  \* one use of logFormatter: its arguments and its outcome
    console     \* a ConsoleLogger, the lines it wrote and its last log call

vars == <<calls, nextGuid, noRetry, formatted, console>>

----------------------------------------------------------------------------
(* Bounds and input sets *)

MaxRetry == 3

Callers == {"a", "b"}

Delays == {0, 100}

Methods == {"GET", "POST", "PUT", "PATCH", "DELETE"}

None == <<>>
Some(x) == <<x>>

Urls == {None, Some(""), Some("/posts")}

Bodies == {None, Some(""), Some("payload")}

\* budgets a client may configure, the invalid ones (below 1) included
RetryCounts == {-1} \cup 0..MaxRetry

RetryOptionsSet == [maxRetryCount : RetryCounts, delayBetweenRetries : Delays]

\* the operation fails on every invocation before the succeedsOn-th and
\* succeeds from then on; 0 stands for an operation that never succeeds
Scripts == 0..(MaxRetry + 1)

----------------------------------------------------------------------------
(* Values *)

ResponseData(i) == [dataOf |-> i]

OperationError(i) == [errorOf |-> i]

ArgumentError(param) == [invalidArgument |-> param]

Fulfilled(v) == [ok |-> TRUE, val |-> v]

Rejected(e) == [ok |-> FALSE, val |-> e]

\* outcome of the i-th transport call (or abstract operation run) of a call
TransportOutcome(succeedsOn, i) ==
    IF succeedsOn # 0 /\ i >= succeedsOn
    THEN Fulfilled(ResponseData(i))
    ELSE Rejected(OperationError(i))

----------------------------------------------------------------------------
(* Guard (utils/guard is not part of the sources) *)

throwIfNullOrEmpty(value) == value = None \/ value = Some("")

----------------------------------------------------------------------------
(* Logger: a debug call appends one entry to the call's lines *)

Debug(log, guid, state) ==
    Append(log, [level |-> "debug", guid |-> guid, state |-> state])

\* loggers a client may inject: one that writes its lines, one whose debug
\* throws on the executor's success line, one whose debug always throws
Loggers == {Some("logger"), Some("throws on success"), Some("throws")}

\* TRUE when the logger's debug throws on the given executor line
\* ("success" or "retry")
LoggerThrows(logger, line) ==
    \/ logger = Some("throws")
    \/ logger = Some("throws on success") /\ line = "success"

LoggerError == [loggerError |-> "debug"]

StartingRetry(m) == [text |-> "Starting retry", maxRetryCount |-> m]

FetchedInRetry == [text |-> "Successfully fetched result in retry"]

DoingOperation(verb, url) ==
    [text |-> "Doing a operation on url", verb |-> verb, url |-> url]

FetchedUrl(url, verb, retries) ==
    [text |-> "Successfully fetched after retries", url |-> url,
     verb |-> verb, retries |-> retries]

----------------------------------------------------------------------------
(* Facade configuration and policy resolution *)

NoRetryPolicy == [delayBetweenRetries |-> 0, maxRetryCount |-> 1]

\* ApiServiceConfig values a client may pass to a facade constructor;
\* None is the omitted argument
OptionsArgs ==
    {None, Some([retryOptions |-> None])}
        \cup {Some([retryOptions |-> Some(p)]) : p \in RetryOptionsSet}

DefaultConfig == [retryOptions |-> Some(noRetry)]

Constructor(optionsArg) ==
    IF optionsArg = None THEN DefaultConfig ELSE optionsArg[1]

\* mutant of getRetryConfiguration: the configured policy is ignored
getDefaultConfigurationOnly(options) == noRetry

getRetryConfiguration(options) ==
    IF options.retryOptions # None THEN options.retryOptions[1] ELSE noRetry

\* mutant of getRequestId: the same id for every call
getSameRequestId(issued) == 1

getRequestId(issued) == issued + 1

----------------------------------------------------------------------------
(* The entries a client can call, and what each is built from *)

Facades == {"HttpService", "ApiService.shared", "ApiService", "ApiService.plain"}

Entries == Facades \cup {"Retry"}

\* which retry executor an entry runs
Executor(entry) ==
    CASE entry = "HttpService"       -> "Retry.options"
      [] entry = "Retry"             -> "Retry.options"
      [] entry = "ApiService.shared" -> "Retry.positional"
      [] entry = "ApiService"        -> "Retry.positional"
      [] entry = "ApiService.plain"  -> "retryAsync"

HasLogger(executor) == executor # "retryAsync"

\* TRUE when the closure handed to the executor awaits a request that was
\* issued once, before the executor was called
SharesRequest(entry) == entry \in {"HttpService", "ApiService.shared"}

BodyVerbs == {"POST", "PUT", "PATCH"}

----------------------------------------------------------------------------
(* State of one logical call.  `logger` is the logger argument the facade  *)
(* or Retry instance behind the call was constructed with.  `steps` lists  *)
(* what HttpService._makeRequest did, in program order: "doing" (its first *)
(* debug call), "request" (the transport call), "retryAsync" (the executor *)
(* called), "returned" (its await returned), "fetched" (its last debug     *)
(* call).  `events`                                                        *)
(* lists, in program order, what the executor did: "invoke"                *)
(* (operationToExecute called), "fulfilled" and                            *)
(* "rejected" (the await returned or threw), "wait" (wait called),         *)
(* "waited" (its timer fired), "announce" (the retry's debug call).        *)

Idle ==
    [pc |-> "idle", entry |-> "", method |-> "", url |-> None, body |-> None,
     options |-> None, succeedsOn |-> 0,
     guid |-> 0, guidCount |-> 0, retryConfiguration |-> None,
     frame |-> None, invoked |-> 0, outcomes |-> <<>>, transport |-> 0,
     waits |-> <<>>, log |-> <<>>, retryReturn |-> None, outcome |-> None,
     events |-> <<>>, logger |-> Some("logger"), steps |-> <<>>]

Last(s) == s[Len(s)]

\* the promise the operation's current invocation awaits
OperationOutcome(call) == TransportOutcome(call.succeedsOn, call.transport)

----------------------------------------------------------------------------
(* The retry executor: Retry.retryAsync (both signatures) and the plain    *)
(* function retryAsync run the same steps; they differ in logging and in   *)
(* wrapping the result.                                                    *)

\* mutants of ShouldRetry: retry conditions that are off by one or two
ShouldRetryAboveTwo(maxRetryCount) == maxRetryCount > 2

ShouldRetryFromOne(maxRetryCount) == maxRetryCount >= 1

ShouldRetryFromZero(maxRetryCount) == maxRetryCount >= 0

ShouldRetry(maxRetryCount) == maxRetryCount > 1

\* mutant of NextRetryValues: the budget is a counter shared by the calls in
\* flight, so every call waiting to retry takes one from it
NextRetryValuesShared(retryOptions) ==
    [delayBetweenRetries |-> retryOptions.delayBetweenRetries,
     maxRetryCount |-> retryOptions.maxRetryCount
                          - Cardinality({c \in DOMAIN calls : calls[c].pc = "wait"})]

\* mutant of NextRetryValues: the delay doubles on every retry
NextRetryValuesBackoff(retryOptions) ==
    [delayBetweenRetries |-> 2 * retryOptions.delayBetweenRetries,
     maxRetryCount |-> retryOptions.maxRetryCount - 1]

\* mutant of NextRetryValues: the recursion is handed the budget it received
NextRetryValuesUndiminished(retryOptions) ==
    [delayBetweenRetries |-> retryOptions.delayBetweenRetries,
     maxRetryCount |-> retryOptions.maxRetryCount]

NextRetryValues(retryOptions) ==
    [delayBetweenRetries |-> retryOptions.delayBetweenRetries,
     maxRetryCount |-> retryOptions.maxRetryCount - 1]

\* mutant of RetryResult: reports the budget left after the succeeding attempt
RetryResultAfterAttempt(result, maxRetryCount) ==
    [result |-> result, retryOptions |-> [maxRetryCount |-> maxRetryCount - 1]]

RetryResult(result, maxRetryCount) ==
    [result |-> result, retryOptions |-> [maxRetryCount |-> maxRetryCount]]

\* mutant of ThrownError: every frame rethrows the first attempt's error
ThrownFirstError(outcomes) == outcomes[1].val

\* the error a frame throws once its budget is exhausted: the one it caught
ThrownError(outcomes) == Last(outcomes).val

LogSuccess(executor, log, guid) ==
    IF HasLogger(executor) THEN Debug(log, guid, FetchedInRetry) ELSE log

\* mutant of LogRetry: the retry is not announced
LogRetrySilently(executor, log, guid, maxRetryCount) == log

LogRetry(executor, log, guid, maxRetryCount) ==
    IF HasLogger(executor)
    THEN Debug(log, guid, StartingRetry(maxRetryCount))
    ELSE log

\* one invocation of operationToExecute: the closures of HttpService and of
\* the shared-request ApiService await the request issued before the
\* executor was called, the others issue a transport call of their own
InvokeOperation(call) ==
    [call EXCEPT !.invoked = @ + 1,
                 !.transport = IF SharesRequest(call.entry) THEN @ ELSE @ + 1,
                 !.events = Append(@, "invoke"),
                 !.pc = "op"]

\* entering retryAsync with the given guid and policy, up to its first await
RetryAsync(call, guid, retryOptions) ==
    InvokeOperation(
        [call EXCEPT !.frame = Some([guid |-> guid,
                                     maxRetryCount |-> retryOptions.maxRetryCount,
                                     delayBetweenRetries |-> retryOptions.delayBetweenRetries])])

\* what the facade does with the executor's return value
FacadeReturn(call, returned) ==
    IF call.entry = "HttpService"
    THEN LET retryCountLeft == returned.retryOptions.maxRetryCount
             retries == call.retryConfiguration[1].maxRetryCount - retryCountLeft
         IN [call EXCEPT
                !.log = Debug(@, call.guid, FetchedUrl(call.url, "GET", retries)),
                !.steps = @ \o <<"returned", "fetched">>,
                !.outcome = Some(Fulfilled(returned.result)),
                !.pc = "done"]
    ELSE [call EXCEPT !.outcome = Some(Fulfilled(returned)), !.pc = "done"]

\* mutant of AfterWait: the retry is announced after the operation has been
\* invoked again
AfterWaitInvokeFirst(call) ==
    LET frame == call.frame[1]
        newRetryValues == NextRetryValues(frame)
        invoked == RetryAsync([call EXCEPT !.events = Append(@, "waited")],
                              frame.guid, newRetryValues)
    IN [invoked EXCEPT
           !.events = IF HasLogger(Executor(call.entry))
                      THEN Append(@, "announce") ELSE @,
           !.log = LogRetry(Executor(call.entry), @, frame.guid,
                            newRetryValues.maxRetryCount)]

\* mutant of AfterWait: the budget is decremented in the policy object the
\* executor was given, which is the caller's configured one
AfterWaitInPlace(call) ==
    LET frame == call.frame[1]
        newRetryValues == NextRetryValues(frame)
        configured == call.options # None /\ call.options[1].retryOptions # None
    IN RetryAsync(
           [call EXCEPT !.events = @ \o (IF HasLogger(Executor(call.entry))
                                         THEN <<"waited", "announce">>
                                         ELSE <<"waited">>),
                        !.log = LogRetry(Executor(call.entry), @, frame.guid,
                                         newRetryValues.maxRetryCount),
                        !.retryConfiguration = Some(newRetryValues),
                        !.options = IF configured
                                    THEN Some([retryOptions |-> Some(newRetryValues)])
                                    ELSE @],
           frame.guid, newRetryValues)

\* after the wait: announce the retry and recurse with the smaller policy
AfterWait(call) ==
    LET frame == call.frame[1]
        newRetryValues == NextRetryValues(frame)
    IN IF HasLogger(Executor(call.entry)) /\ LoggerThrows(call.logger, "retry")
       THEN [call EXCEPT !.events = Append(@, "waited"),
                         !.retryReturn = Some(Rejected(LoggerError)),
                         !.outcome = Some(Rejected(LoggerError)),
                         !.pc = "done"]
       ELSE RetryAsync(
                [call EXCEPT !.events = @ \o (IF HasLogger(Executor(call.entry))
                                              THEN <<"waited", "announce">>
                                              ELSE <<"waited">>),
                             !.log = LogRetry(Executor(call.entry), @, frame.guid,
                                              newRetryValues.maxRetryCount)],
                frame.guid, newRetryValues)

\* mutant of OnRejected: wait is called without await, so the retry starts
\* while the timer is still running
OnRejectedWithoutAwait(call, err) ==
    LET frame == call.frame[1]
        caught == Append(call.outcomes, Rejected(err))
        newRetryValues == NextRetryValues(frame)
    IN IF ShouldRetry(frame.maxRetryCount)
       THEN RetryAsync(
                [call EXCEPT !.outcomes = caught,
                             !.events = @ \o <<"rejected", "wait", "announce">>,
                             !.waits = Append(@, frame.delayBetweenRetries),
                             !.log = LogRetry(Executor(call.entry), @, frame.guid,
                                              newRetryValues.maxRetryCount)],
                frame.guid, newRetryValues)
       ELSE [call EXCEPT !.outcomes = caught,
                         !.events = Append(@, "rejected"),
                         !.retryReturn = Some(Rejected(ThrownError(caught))),
                         !.outcome = Some(Rejected(ThrownError(caught))),
                         !.pc = "done"]

\* mutant of OnRejected: the copy of the catch branch in the plain function
\* retryAsync tests maxRetryCount > 2
OnRejectedPlainStricter(call, err) ==
    LET frame == call.frame[1]
        caught == Append(call.outcomes, Rejected(err))
        retry == IF Executor(call.entry) = "retryAsync"
                 THEN frame.maxRetryCount > 2
                 ELSE ShouldRetry(frame.maxRetryCount)
    IN IF retry
       THEN [call EXCEPT !.outcomes = caught,
                         !.events = @ \o <<"rejected", "wait">>,
                         !.waits = Append(@, frame.delayBetweenRetries),
                         !.pc = "wait"]
       ELSE [call EXCEPT !.outcomes = caught,
                         !.events = Append(@, "rejected"),
                         !.retryReturn = Some(Rejected(ThrownError(caught))),
                         !.outcome = Some(Rejected(ThrownError(caught))),
                         !.pc = "done"]

\* the catch branch: the awaited operation threw `err`
OnRejected(call, err) ==
    LET frame == call.frame[1]
        caught == Append(call.outcomes, Rejected(err))
    IN IF ShouldRetry(frame.maxRetryCount)
       THEN [call EXCEPT !.outcomes = caught,
                         !.events = @ \o <<"rejected", "wait">>,
                         !.waits = Append(@, frame.delayBetweenRetries),
                         !.pc = "wait"]
       ELSE [call EXCEPT !.outcomes = caught,
                         !.events = Append(@, "rejected"),
                         !.retryReturn = Some(Rejected(ThrownError(caught))),
                         !.outcome = Some(Rejected(ThrownError(caught))),
                         !.pc = "done"]

\* the try branch: the awaited operation returned `result`; the success
\* line is logged inside the try block, so a logger that throws there lands
\* in the catch branch with the logger's error
OnFulfilled(call, result) ==
    LET executor == Executor(call.entry)
        frame == call.frame[1]
        returned == IF executor = "retryAsync"
                    THEN result
                    ELSE RetryResult(result, frame.maxRetryCount)
        awaited == [call EXCEPT !.outcomes = Append(@, Fulfilled(result)),
                                !.events = Append(@, "fulfilled")]
    IN IF HasLogger(executor) /\ LoggerThrows(call.logger, "success")
       THEN OnRejected(awaited, LoggerError)
       ELSE FacadeReturn(
                [awaited EXCEPT !.log = LogSuccess(executor, @, frame.guid),
                                !.retryReturn = Some(Fulfilled(returned))],
                returned)

----------------------------------------------------------------------------
(* Facade verbs, up to their first await *)

\* mutant of RejectedParameter: the url guard is missing
RejectedBodyOnly(method, url, body) ==
    IF method \in BodyVerbs /\ throwIfNullOrEmpty(body) THEN Some("body") ELSE None

\* mutant of RejectedParameter: post, put and patch do not guard body
RejectedUrlOnly(method, url, body) ==
    IF throwIfNullOrEmpty(url) THEN Some("url") ELSE None

\* the parameter the verb's guards reject, if any: every verb guards url,
\* post, put and patch guard body as well
RejectedParameter(method, url, body) ==
    IF throwIfNullOrEmpty(url) THEN Some("url")
    ELSE IF method \in BodyVerbs /\ throwIfNullOrEmpty(body) THEN Some("body")
    ELSE None

Called(entry, method, url, body, options) ==
    [Idle EXCEPT !.entry = entry, !.method = method, !.url = url,
                 !.body = body, !.options = Some(options)]

\* mutant of HttpServiceVerb: the request is issued before the first line
\* is logged
HttpServiceVerbRequestFirst(method, url, body, optionsArg, succeedsOn, issued) ==
    LET call == Called("HttpService", method, url, body, Constructor(optionsArg))
        rejected == RejectedParameter(method, url, body)
        requestId == getRequestId(issued)
        retryConfiguration == getRetryConfiguration(call.options[1])
    IN IF rejected # None
       THEN [call EXCEPT !.outcome = Some(Rejected(ArgumentError(rejected[1]))),
                         !.pc = "done"]
       ELSE RetryAsync(
                [call EXCEPT
                    !.succeedsOn = succeedsOn,
                    !.guid = requestId,
                    !.guidCount = @ + 1,
                    !.retryConfiguration = Some(retryConfiguration),
                    !.transport = @ + 1,
                    !.log = Debug(@, requestId, DoingOperation("GET", url)),
                    !.steps = <<"request", "doing", "retryAsync">>],
                requestId, retryConfiguration)

\* HttpService.get/post/put/patch/delete and _makeRequest
HttpServiceVerb(method, url, body, optionsArg, succeedsOn, issued) ==
    LET call == Called("HttpService", method, url, body, Constructor(optionsArg))
        rejected == RejectedParameter(method, url, body)
        requestId == getRequestId(issued)
        retryConfiguration == getRetryConfiguration(call.options[1])
    IN IF rejected # None
       THEN [call EXCEPT !.outcome = Some(Rejected(ArgumentError(rejected[1]))),
                         !.pc = "done"]
       ELSE RetryAsync(
                [call EXCEPT
                    !.succeedsOn = succeedsOn,
                    !.guid = requestId,
                    !.guidCount = @ + 1,
                    !.retryConfiguration = Some(retryConfiguration),
                    !.log = Debug(@, requestId, DoingOperation("GET", url)),
                    !.transport = @ + 1,
                    !.steps = <<"doing", "request", "retryAsync">>],
                requestId, retryConfiguration)

\* ApiService with the request issued once in _makeRequest
ApiServiceSharedVerb(method, url, body, optionsArg, succeedsOn, issued) ==
    LET call == Called("ApiService.shared", method, url, body, Constructor(optionsArg))
        retryConfiguration == getRetryConfiguration(call.options[1])
        requestId == getRequestId(issued)
    IN RetryAsync(
           [call EXCEPT !.succeedsOn = succeedsOn,
                        !.retryConfiguration = Some(retryConfiguration),
                        !.transport = @ + 1,
                        !.guid = requestId,
                        !.guidCount = @ + 1],
           requestId, retryConfiguration)

\* ApiService whose closure calls _makeRequest on every attempt
ApiServiceVerb(method, url, body, optionsArg, succeedsOn, issued) ==
    LET call == Called("ApiService", method, url, body, Constructor(optionsArg))
        requestId == getRequestId(issued)
        retryConfiguration == getRetryConfiguration(call.options[1])
    IN RetryAsync(
           [call EXCEPT !.succeedsOn = succeedsOn,
                        !.guid = requestId,
                        !.guidCount = @ + 1,
                        !.retryConfiguration = Some(retryConfiguration)],
           requestId, retryConfiguration)

\* ApiService over the plain function retryAsync: no logger, no request id
ApiServicePlainVerb(method, url, body, optionsArg, succeedsOn) ==
    LET call == Called("ApiService.plain", method, url, body, Constructor(optionsArg))
        retryConfiguration == getRetryConfiguration(call.options[1])
    IN RetryAsync(
           [call EXCEPT !.succeedsOn = succeedsOn,
                        !.retryConfiguration = Some(retryConfiguration)],
           0, retryConfiguration)

\* a client calling Retry.retryAsync itself, with its own guid and policy
RetryDirect(retryOptions, succeedsOn, issued) ==
    LET guid == getRequestId(issued)
    IN RetryAsync(
           [Idle EXCEPT !.entry = "Retry",
                        !.succeedsOn = succeedsOn,
                        !.guid = guid,
                        !.guidCount = @ + 1,
                        !.retryConfiguration = Some(retryOptions)],
           guid, retryOptions)

----------------------------------------------------------------------------
(* Constructors: the logger argument is None when the client passes null   *)
(* or undefined.                                                           *)

LoggerArgs == {None, Some("logger")}

\* mutant of RetryConstructor: the guard on logger is missing
RetryConstructorUnguarded(logger) == Fulfilled([logger |-> logger])

RetryConstructor(logger) ==
    IF throwIfNullOrEmpty(logger)
    THEN Rejected(ArgumentError("logger"))
    ELSE Fulfilled([logger |-> logger])

\* the facade guards its logger and then builds its Retry with it
HttpServiceConstructor(optionsArg, logger) ==
    IF throwIfNullOrEmpty(logger)
    THEN Rejected(ArgumentError("logger"))
    ELSE LET retry == RetryConstructor(logger)
         IN IF retry.ok
            THEN Fulfilled([options |-> Constructor(optionsArg),
                            logger |-> logger, retry |-> retry.val])
            ELSE retry

\* a constructor that threw: there is no instance to call
NotConstructed(entry, thrown) ==
    [Idle EXCEPT !.entry = entry, !.logger = None,
                 !.outcome = Some(thrown), !.pc = "done"]

----------------------------------------------------------------------------
(* The log formatter.  An argument is None when the caller passes          *)
(* undefined; JavaScript truthiness makes an empty state and an error with *)
(* an empty message count as missing.  A returned string is kept as the    *)
(* sequence of the pieces its template concatenates.                       *)

FormatStates ==
    {None, Some(""), Some("Starting retry 1"),
     Some("Successfully fetched result in retry")}

FormatGuids == {None, Some("guid-0"), Some("guid-1"), Some("guid-2")}

FormatErrors ==
    {None, Some([message |-> ""]), Some([message |-> "Network Error"]),
     Some([message |-> "timeout"])}

Returned(text) == [threw |-> FALSE, text |-> text, message |-> ""]

Thrown(message) == [threw |-> TRUE, text |-> <<>>, message |-> message]

InvalidInputs == "Invalid inputs provided for log formatter"

\* if (state): a string is truthy when it is not empty
TruthyState(state) == state # None /\ state[1] # ""

\* if (error && error.message)
TruthyMessage(error) == error # None /\ error[1].message # ""

\* the formatter with `if (state)` tested ahead of the state-and-error cases
logFormatterStateFirst(state, guid, error) ==
    IF TruthyState(state)
    THEN Returned(<<state[1]>>)
    ELSE IF guid # None /\ TruthyMessage(error)
    THEN Returned(<<guid[1], " ", error[1].message>>)
    ELSE IF TruthyMessage(error)
    THEN Returned(<<error[1].message>>)
    ELSE Thrown(InvalidInputs)

\* the formatter ending in `return ""` instead of the throw
logFormatterEmptyLine(state, guid, error) ==
    IF guid # None /\ TruthyState(state) /\ TruthyMessage(error)
    THEN Returned(<<guid[1], " ", state[1], " with error \"",
                    error[1].message, "\"">>)
    ELSE IF TruthyState(state) /\ TruthyMessage(error)
    THEN Returned(<<state[1], " with error \"", error[1].message, "\"">>)
    ELSE IF guid # None /\ TruthyState(state)
    THEN Returned(<<guid[1], " ", state[1]>>)
    ELSE IF TruthyState(state)
    THEN Returned(<<state[1]>>)
    ELSE IF guid # None /\ TruthyMessage(error)
    THEN Returned(<<guid[1], " ", error[1].message>>)
    ELSE IF TruthyMessage(error)
    THEN Returned(<<error[1].message>>)
    ELSE Returned(<<>>)

logFormatter(state, guid, error) ==
    IF guid # None /\ TruthyState(state) /\ TruthyMessage(error)
    THEN Returned(<<guid[1], " ", state[1], " with error \"",
                    error[1].message, "\"">>)
    ELSE IF TruthyState(state) /\ TruthyMessage(error)
    THEN Returned(<<state[1], " with error \"", error[1].message, "\"">>)
    ELSE IF guid # None /\ TruthyState(state)
    THEN Returned(<<guid[1], " ", state[1]>>)
    ELSE IF TruthyState(state)
    THEN Returned(<<state[1]>>)
    ELSE IF guid # None /\ TruthyMessage(error)
    THEN Returned(<<guid[1], " ", error[1].message>>)
    ELSE IF TruthyMessage(error)
    THEN Returned(<<error[1].message>>)
    ELSE Thrown(InvalidInputs)

\* a client about to call logFormatter(state, guid, error)
FormatArguments(state, guid, error) ==
    [state |-> state, guid |-> guid, error |-> error, out |-> None]

NotFormatting == FormatArguments(None, None, None)

----------------------------------------------------------------------------
(* The leveled logger.  log-level, abstract-string-logger and date-utils   *)
(* are not part of the sources: the levels, their order, the level filter  *)
(* and the timestamp follow the specification; the constructor and the     *)
(* rendering are ConsoleLogger's.                                          *)

MaxLogCalls == 3

LogLevels == <<"trace", "debug", "info", "warn", "error">>

LevelRank(level) == CHOOSE i \in 1..Len(LogLevels) : LogLevels[i] = level

MinimumLevelArgs == {None} \cup {Some(LogLevels[i]) : i \in 1..Len(LogLevels)}

LogStates == {None, Some(""), Some("Starting retry 1")}

LogGuids == {None, Some("guid-0")}

LogErrors == {None, Some([message |-> ""]), Some([message |-> "Network Error"])}

toLocaleUpperCase(logLevel) ==
    CASE logLevel = "trace" -> "TRACE"
      [] logLevel = "debug" -> "DEBUG"
      [] logLevel = "info" -> "INFO"
      [] logLevel = "warn" -> "WARN"
      [] logLevel = "error" -> "ERROR"

getUtcDateTimeString == "utc-date-time"

\* `configured` keeps the constructor's argument, `emitted` counts the calls
\* of console.log and `line` is the last line written
ConsoleLogger(minimumLevel) ==
    [configured |-> minimumLevel,
     minimumLevel |-> IF minimumLevel = None THEN "trace" ELSE minimumLevel[1],
     emitted |-> 0, line |-> None, entry |-> None, raised |-> None,
     logCalls |-> 0]

\* the handler writing the state itself instead of calling the formatter
logHandlerStateOnly(sink, logLevel, guid, state, error) ==
    [sink EXCEPT
        !.emitted = @ + 1,
        !.line = Some(<<toLocaleUpperCase(logLevel), ": ",
                        getUtcDateTimeString, " ",
                        IF state = None THEN "undefined" ELSE state[1]>>)]

\* the template evaluates formatter(state, guid, error) before console.log
\* runs: a formatter that throws leaves nothing written
logHandler(sink, logLevel, guid, state, error) ==
    LET message == logFormatter(state, guid, error)
    IN IF message.threw
       THEN [sink EXCEPT !.raised = Some(message.message)]
       ELSE [sink EXCEPT
                !.emitted = @ + 1,
                !.line = Some(<<toLocaleUpperCase(logLevel), ": ",
                                getUtcDateTimeString, " ">> \o message.text)]

\* one log call: `entry` keeps its arguments and the number of lines
\* written before it
log(sink, logLevel, guid, state, error) ==
    LET entered ==
            [sink EXCEPT
                !.entry = Some([level |-> logLevel, guid |-> guid,
                                state |-> state, error |-> error,
                                before |-> sink.emitted]),
                !.raised = None,
                !.logCalls = @ + 1]
    IN IF LevelRank(logLevel) >= LevelRank(sink.minimumLevel)
       THEN logHandler(entered, logLevel, guid, state, error)
       ELSE entered

----------------------------------------------------------------------------
(* Actions *)

BodiesOf(method) == IF method \in BodyVerbs THEN Bodies ELSE {None}

HttpServiceCallOf(c, methods, scripts) ==
    /\ calls[c].pc = "idle"
    /\ \E method \in methods, url \in Urls, optionsArg \in OptionsArgs,
          succeedsOn \in scripts :
          \E body \in BodiesOf(method) :
             LET call == HttpServiceVerb(method, url, body, optionsArg,
                                         succeedsOn, nextGuid)
             IN /\ calls' = [calls EXCEPT ![c] = call]
                /\ nextGuid' = nextGuid + call.guidCount
    /\ UNCHANGED <<noRetry, formatted, console>>

HttpServiceCall(c) == HttpServiceCallOf(c, Methods, Scripts)

ApiServiceSharedCall(c) ==
    /\ calls[c].pc = "idle"
    /\ \E method \in Methods, optionsArg \in OptionsArgs, succeedsOn \in Scripts :
          LET body == IF method \in BodyVerbs THEN Some("payload") ELSE None
              call == ApiServiceSharedVerb(method, Some("/posts"), body,
                                           optionsArg, succeedsOn, nextGuid)
          IN /\ calls' = [calls EXCEPT ![c] = call]
             /\ nextGuid' = nextGuid + call.guidCount
    /\ UNCHANGED <<noRetry, formatted, console>>

ApiServiceCall(c) ==
    /\ calls[c].pc = "idle"
    /\ \E method \in Methods, optionsArg \in OptionsArgs, succeedsOn \in Scripts :
          LET body == IF method \in BodyVerbs THEN Some("payload") ELSE None
              call == ApiServiceVerb(method, Some("/posts"), body,
                                     optionsArg, succeedsOn, nextGuid)
          IN /\ calls' = [calls EXCEPT ![c] = call]
             /\ nextGuid' = nextGuid + call.guidCount
    /\ UNCHANGED <<noRetry, formatted, console>>

ApiServicePlainCall(c) ==
    /\ calls[c].pc = "idle"
    /\ \E method \in Methods, optionsArg \in OptionsArgs, succeedsOn \in Scripts :
          LET body == IF method \in BodyVerbs THEN Some("payload") ELSE None
              call == ApiServicePlainVerb(method, Some("/posts"), body,
                                          optionsArg, succeedsOn)
          IN calls' = [calls EXCEPT ![c] = call]
    /\ UNCHANGED <<nextGuid, noRetry, formatted, console>>

RetryCall(c) ==
    /\ calls[c].pc = "idle"
    /\ \E retryOptions \in RetryOptionsSet, succeedsOn \in Scripts :
          LET call == RetryDirect(retryOptions, succeedsOn, nextGuid)
          IN /\ calls' = [calls EXCEPT ![c] = call]
             /\ nextGuid' = nextGuid + call.guidCount
    /\ UNCHANGED <<noRetry, formatted, console>>

\* the awaited operation settles and the executor's try/catch runs
OperationSettles(c) ==
    /\ calls[c].pc = "op"
    /\ LET settled == OperationOutcome(calls[c])
       IN calls' = [calls EXCEPT ![c] =
                       IF settled.ok THEN OnFulfilled(calls[c], settled.val)
                                     ELSE OnRejected(calls[c], settled.val)]
    /\ UNCHANGED <<nextGuid, noRetry, formatted, console>>

\* the timer of wait(delayBetweenRetries) fires
WaitElapses(c) ==
    /\ calls[c].pc = "wait"
    /\ calls' = [calls EXCEPT ![c] = AfterWait(calls[c])]
    /\ UNCHANGED <<nextGuid, noRetry, formatted, console>>

Init ==
    /\ calls = [c \in {"a"} |-> Idle]
    /\ nextGuid = 0
    /\ noRetry = NoRetryPolicy
    /\ formatted = NotFormatting
    /\ console = ConsoleLogger(None)

Next ==
    \/ \E c \in DOMAIN calls : HttpServiceCall(c)
    \/ \E c \in DOMAIN calls : ApiServiceSharedCall(c)
    \/ \E c \in DOMAIN calls : ApiServiceCall(c)
    \/ \E c \in DOMAIN calls : ApiServicePlainCall(c)
    \/ \E c \in DOMAIN calls : RetryCall(c)
    \/ \E c \in DOMAIN calls : OperationSettles(c)
    \/ \E c \in DOMAIN calls : WaitElapses(c)

Spec == Init /\ [][Next]_vars

(* Two clients calling concurrently.  The second client squares the state  *)
(* space, so the concurrent workload is HttpService get and post, whose    *)
(* shared request only tells a first transport call that succeeds from one *)
(* that fails, and direct calls of Retry.retryAsync.                       *)

PairMethods == {"GET", "POST"}

PairScripts == {0, 1}

PairHttpServiceCall(c) == HttpServiceCallOf(c, PairMethods, PairScripts)

InitPair ==
    /\ calls = [c \in Callers |-> Idle]
    /\ nextGuid = 0
    /\ noRetry = NoRetryPolicy
    /\ formatted = NotFormatting
    /\ console = ConsoleLogger(None)

NextPair ==
    \/ \E c \in DOMAIN calls : PairHttpServiceCall(c)
    \/ \E c \in DOMAIN calls : RetryCall(c)
    \/ \E c \in DOMAIN calls : OperationSettles(c)
    \/ \E c \in DOMAIN calls : WaitElapses(c)

SpecPair == InitPair /\ [][NextPair]_vars

(* The event loop settles every awaited operation and fires every timer:  *)
(* a call that awaits one of them is eventually resumed.                   *)

Caller == "a"

Fairness ==
    /\ WF_vars(OperationSettles(Caller))
    /\ WF_vars(WaitElapses(Caller))

SpecFair == Init /\ [][Next]_vars /\ Fairness

(* The three executors side by side: the plain function retryAsync, the   *)
(* positional Retry.retryAsync and the options-object Retry.retryAsync are *)
(* each called once, with the same policy and an operation following the   *)
(* same script.                                                            *)

TrioCallers == {"plain", "positional", "options"}

\* the calls already made were given this policy and this script
SameInputs(retryOptions, succeedsOn) ==
    \A d \in DOMAIN calls :
        calls[d].pc # "idle" =>
            /\ calls[d].retryConfiguration = Some(retryOptions)
            /\ calls[d].succeedsOn = succeedsOn

TrioPlainCall ==
    /\ calls["plain"].pc = "idle"
    /\ \E retryOptions \in RetryOptionsSet, succeedsOn \in Scripts :
          /\ SameInputs(retryOptions, succeedsOn)
          /\ calls' = [calls EXCEPT !["plain"] =
                          ApiServicePlainVerb("GET", Some("/posts"), None,
                              Some([retryOptions |-> Some(retryOptions)]),
                              succeedsOn)]
    /\ UNCHANGED <<nextGuid, noRetry, formatted, console>>

TrioPositionalCall ==
    /\ calls["positional"].pc = "idle"
    /\ \E retryOptions \in RetryOptionsSet, succeedsOn \in Scripts :
          /\ SameInputs(retryOptions, succeedsOn)
          /\ LET call == ApiServiceVerb("GET", Some("/posts"), None,
                              Some([retryOptions |-> Some(retryOptions)]),
                              succeedsOn, nextGuid)
             IN /\ calls' = [calls EXCEPT !["positional"] = call]
                /\ nextGuid' = nextGuid + call.guidCount
    /\ UNCHANGED <<noRetry, formatted, console>>

TrioOptionsCall ==
    /\ calls["options"].pc = "idle"
    /\ \E retryOptions \in RetryOptionsSet, succeedsOn \in Scripts :
          /\ SameInputs(retryOptions, succeedsOn)
          /\ LET call == RetryDirect(retryOptions, succeedsOn, nextGuid)
             IN /\ calls' = [calls EXCEPT !["options"] = call]
                /\ nextGuid' = nextGuid + call.guidCount
    /\ UNCHANGED <<noRetry, formatted, console>>

InitTrio ==
    /\ calls = [c \in TrioCallers |-> Idle]
    /\ nextGuid = 0
    /\ noRetry = NoRetryPolicy
    /\ formatted = NotFormatting
    /\ console = ConsoleLogger(None)

NextTrio ==
    \/ TrioPlainCall
    \/ TrioPositionalCall
    \/ TrioOptionsCall
    \/ \E c \in DOMAIN calls : OperationSettles(c)
    \/ \E c \in DOMAIN calls : WaitElapses(c)

SpecTrio == InitTrio /\ [][NextTrio]_vars

(* A client constructing an HttpService or a Retry with the logger it has, *)
(* possibly none, and calling it.                                          *)

NewHttpServiceCall(c) ==
    /\ calls[c].pc = "idle"
    /\ \E logger \in LoggerArgs, method \in Methods, url \in Urls,
          optionsArg \in OptionsArgs, succeedsOn \in Scripts :
          \E body \in BodiesOf(method) :
             LET built == HttpServiceConstructor(optionsArg, logger)
                 call == IF built.ok
                         THEN [HttpServiceVerb(method, url, body, optionsArg,
                                               succeedsOn, nextGuid)
                                  EXCEPT !.logger = built.val.retry.logger]
                         ELSE NotConstructed("HttpService", built)
             IN /\ calls' = [calls EXCEPT ![c] = call]
                /\ nextGuid' = nextGuid + call.guidCount
    /\ UNCHANGED <<noRetry, formatted, console>>

NewRetryCall(c) ==
    /\ calls[c].pc = "idle"
    /\ \E logger \in LoggerArgs, retryOptions \in RetryOptionsSet,
          succeedsOn \in Scripts :
          LET built == RetryConstructor(logger)
              call == IF built.ok
                      THEN [RetryDirect(retryOptions, succeedsOn, nextGuid)
                               EXCEPT !.logger = built.val.logger]
                      ELSE NotConstructed("Retry", built)
          IN /\ calls' = [calls EXCEPT ![c] = call]
             /\ nextGuid' = nextGuid + call.guidCount
    /\ UNCHANGED <<noRetry, formatted, console>>

NextConstruct ==
    \/ \E c \in DOMAIN calls : NewHttpServiceCall(c)
    \/ \E c \in DOMAIN calls : NewRetryCall(c)
    \/ \E c \in DOMAIN calls : OperationSettles(c)
    \/ \E c \in DOMAIN calls : WaitElapses(c)

SpecConstruct == Init /\ [][NextConstruct]_vars

(* A client calling Retry.retryAsync on a Retry built with a logger whose  *)
(* debug may throw.                                                        *)

InjectedLoggerCall(c) ==
    /\ calls[c].pc = "idle"
    /\ \E logger \in Loggers, retryOptions \in RetryOptionsSet,
          succeedsOn \in Scripts :
          LET call == [RetryDirect(retryOptions, succeedsOn, nextGuid)
                          EXCEPT !.logger = logger]
          IN /\ calls' = [calls EXCEPT ![c] = call]
             /\ nextGuid' = nextGuid + call.guidCount
    /\ UNCHANGED <<noRetry, formatted, console>>

NextInjected ==
    \/ \E c \in DOMAIN calls : InjectedLoggerCall(c)
    \/ \E c \in DOMAIN calls : OperationSettles(c)
    \/ \E c \in DOMAIN calls : WaitElapses(c)

SpecInjected == Init /\ [][NextInjected]_vars

(* A client formatting one log entry with logFormatter. *)

FormatCall ==
    /\ formatted.out = None
    /\ formatted' =
          [formatted EXCEPT
              !.out = Some(logFormatter(formatted.state, formatted.guid,
                                        formatted.error))]
    /\ UNCHANGED <<calls, nextGuid, noRetry, console>>

InitFormatter ==
    /\ calls = [c \in {"a"} |-> Idle]
    /\ nextGuid = 0
    /\ noRetry = NoRetryPolicy
    /\ \E state \in FormatStates, guid \in FormatGuids, error \in FormatErrors :
          formatted = FormatArguments(state, guid, error)
    /\ console = ConsoleLogger(None)

NextFormatter == FormatCall

SpecFormatter == InitFormatter /\ [][NextFormatter]_vars

(* Clients logging through one ConsoleLogger. *)

LogCall ==
    /\ console.logCalls < MaxLogCalls
    /\ \E i \in 1..Len(LogLevels), guid \in LogGuids, state \in LogStates,
          error \in LogErrors :
          console' = log(console, LogLevels[i], guid, state, error)
    /\ UNCHANGED <<calls, nextGuid, noRetry, formatted>>

InitLogger ==
    /\ calls = [c \in {"a"} |-> Idle]
    /\ nextGuid = 0
    /\ noRetry = NoRetryPolicy
    /\ formatted = NotFormatting
    /\ \E minimumLevel \in MinimumLevelArgs :
          console = ConsoleLogger(minimumLevel)

NextLogger == LogCall

SpecLogger == InitLogger /\ [][NextLogger]_vars

----------------------------------------------------------------------------
(* Vocabulary of the properties *)

Started(call) == call.frame # None

Done(call) == call.pc = "done"

\* the policy the call handed to the executor
Policy(call) == call.retryConfiguration[1]

AllFailed(call) == \A i \in 1..Len(call.outcomes) : ~call.outcomes[i].ok

\* the invocation from which the operation handed to the executor succeeds
\* (0: never); a closure over a shared request repeats the first outcome
OperationSucceedsOn(call) ==
    IF SharesRequest(call.entry)
    THEN (IF call.succeedsOn = 1 THEN 1 ELSE 0)
    ELSE call.succeedsOn

\* the result inside the executor's return value
ResultOf(call) ==
    IF Executor(call.entry) = "retryAsync"
    THEN call.retryReturn[1].val
    ELSE call.retryReturn[1].val.result

----------------------------------------------------------------------------
(* Properties *)

\* C1: with maxRetryCount = n >= 1 and an operation that fails on every
\* invocation, a finished retryAsync call has invoked the operation exactly n
\* times, has waited exactly n-1 times, each time for delayBetweenRetries, and
\* has failed with the error of the n-th invocation, unwrapped.
C1_AlwaysFailing ==
    \A c \in DOMAIN calls :
        LET call == calls[c]
            n == Policy(call).maxRetryCount
        IN (Started(call) /\ Done(call) /\ n >= 1 /\ AllFailed(call)) =>
              /\ call.invoked = n
              /\ Len(call.outcomes) = n
              /\ Len(call.waits) = n - 1
              /\ \A i \in 1..Len(call.waits) :
                    call.waits[i] = Policy(call).delayBetweenRetries
              /\ call.retryReturn = Some(Rejected(call.outcomes[n].val))
              /\ call.outcomes[n].val = OperationError(call.transport)

C1_Witness ==
    \E c \in DOMAIN calls :
        /\ Done(calls[c]) /\ calls[c].entry = "Retry"
        /\ Policy(calls[c]) = [maxRetryCount |-> 3, delayBetweenRetries |-> 100]
        /\ AllFailed(calls[c]) /\ calls[c].invoked = 3
        /\ calls[c].retryReturn = Some(Rejected(OperationError(3)))

\* C2: with maxRetryCount = n >= 1 and an operation that fails on its first
\* k-1 invocations and succeeds on the k-th (1 <= k <= n), a finished
\* retryAsync call has invoked the operation exactly k times, has waited
\* exactly k-1 times and has returned the value of the k-th invocation.
C2_SucceedsOnKth ==
    \A c \in DOMAIN calls :
        LET call == calls[c]
            n == Policy(call).maxRetryCount
            k == OperationSucceedsOn(call)
        IN (Started(call) /\ Done(call) /\ n >= 1 /\ k >= 1 /\ k <= n) =>
              /\ call.invoked = k
              /\ Len(call.waits) = k - 1
              /\ call.retryReturn # None /\ call.retryReturn[1].ok
              /\ ResultOf(call) = call.outcomes[k].val
              /\ ResultOf(call) = ResponseData(call.transport)
              /\ call.outcome[1].ok

C2_Witness ==
    \E c \in DOMAIN calls :
        /\ Done(calls[c]) /\ calls[c].entry = "Retry"
        /\ Policy(calls[c]).maxRetryCount = 3
        /\ OperationSucceedsOn(calls[c]) = 3
        /\ calls[c].invoked = 3 /\ Len(calls[c].waits) = 2
        /\ ResultOf(calls[c]) = ResponseData(3)

\* C3: the closure a facade hands to the executor performs one transport call
\* per invocation, so a facade call issues as many transport calls as the
\* executor makes attempts, and a transport that starts succeeding within the
\* budget makes the facade call succeed.
C3_OneTransportCallPerAttempt ==
    \A c \in DOMAIN calls :
        LET call == calls[c]
        IN (call.entry \in Facades /\ Started(call)) =>
              /\ call.transport = call.invoked
              /\ (Done(call) /\ call.succeedsOn >= 1
                    /\ call.succeedsOn <= Policy(call).maxRetryCount)
                      => call.outcome[1].ok

\* C4: with maxRetryCount = 1 the executor never waits and never retries,
\* whatever the delay: one invocation, no retry announcement, and a failure
\* is propagated as the same error.
C4_SingleAttempt ==
    \A c \in DOMAIN calls :
        LET call == calls[c]
        IN (Started(call) /\ Policy(call).maxRetryCount = 1) =>
              /\ call.invoked = 1
              /\ call.pc # "wait"
              /\ call.waits = <<>>
              /\ \A i \in 1..Len(call.log) :
                    call.log[i].state.text # "Starting retry"
              /\ (Done(call) /\ ~call.outcomes[1].ok) =>
                    /\ call.retryReturn = Some(Rejected(OperationError(1)))
                    /\ call.outcome = Some(Rejected(OperationError(1)))

C4_Witness ==
    \E c \in DOMAIN calls :
        /\ Done(calls[c]) /\ Started(calls[c])
        /\ Policy(calls[c]) = [maxRetryCount |-> 1, delayBetweenRetries |-> 100]
        /\ calls[c].invoked = 1
        /\ calls[c].outcome = Some(Rejected(OperationError(1)))

\* C5: a facade resolves its policy to the configured retryOptions when it
\* has one and to {maxRetryCount: 1, delayBetweenRetries: 0} otherwise; a
\* facade without retry options makes one attempt on a failing operation,
\* waits zero times and propagates the error.
C5_PolicyResolution ==
    \A c \in DOMAIN calls :
        LET call == calls[c]
            configured == call.options[1].retryOptions
        IN (call.entry \in Facades /\ Started(call)) =>
              /\ configured # None => Policy(call) = configured[1]
              /\ configured = None =>
                    Policy(call) = [maxRetryCount |-> 1, delayBetweenRetries |-> 0]
              /\ call.frame[1].delayBetweenRetries = Policy(call).delayBetweenRetries
              /\ call.frame[1].maxRetryCount =
                    Policy(call).maxRetryCount - (call.invoked - 1)
              /\ (configured = None /\ Done(call) /\ ~call.outcomes[1].ok) =>
                    /\ call.invoked = 1
                    /\ call.waits = <<>>
                    /\ call.outcome = Some(Rejected(call.outcomes[1].val))

C5_Witness ==
    \E c \in DOMAIN calls :
        /\ calls[c].entry = "HttpService" /\ Done(calls[c]) /\ Started(calls[c])
        /\ calls[c].options[1].retryOptions = None
        /\ calls[c].invoked = 1
        /\ calls[c].outcome = Some(Rejected(OperationError(1)))

\* C6: an HttpService verb called with an empty or missing url fails with an
\* invalid-argument error before a correlation id is generated, a line is
\* logged, a transport call is issued or the executor is entered, and the
\* failure is not retried.
C6_UrlGuard ==
    \A c \in DOMAIN calls :
        LET call == calls[c]
        IN (call.entry = "HttpService" /\ call.url \in {None, Some("")}) =>
              /\ Done(call)
              /\ call.outcome = Some(Rejected(ArgumentError("url")))
              /\ call.guidCount = 0 /\ call.guid = 0
              /\ call.log = <<>>
              /\ call.transport = 0
              /\ call.invoked = 0 /\ call.frame = None /\ call.waits = <<>>

C6_Witness ==
    \E c \in DOMAIN calls :
        /\ calls[c].entry = "HttpService" /\ calls[c].method = "PATCH"
        /\ calls[c].url = Some("") /\ calls[c].body = Some("payload")
        /\ calls[c].outcome = Some(Rejected(ArgumentError("url")))

\* C7: a facade verb call that passes validation ends either with the
\* operation's response data itself (not the executor's wrapper) or with the
\* error of the last attempt.
C7_UnwrappedOrLastError ==
    \A c \in DOMAIN calls :
        LET call == calls[c]
        IN (call.entry \in Facades /\ Started(call) /\ Done(call)) =>
              \/ /\ Last(call.outcomes).ok
                 /\ call.outcome = Some(Fulfilled(Last(call.outcomes).val))
              \/ /\ ~Last(call.outcomes).ok
                 /\ ~ShouldRetry(call.frame[1].maxRetryCount)
                 /\ call.outcome = Some(Rejected(Last(call.outcomes).val))

\* C8: a facade call generates its correlation id exactly once; every
\* executor frame of the call runs with that id and every line the call logs
\* carries it; two facade calls never have the same id.
C8_OneIdPerCall ==
    \A c \in DOMAIN calls :
        LET call == calls[c]
        IN (call.entry = "HttpService" /\ Started(call)) =>
              /\ call.guidCount = 1
              /\ call.guid \in 1..nextGuid
              /\ call.frame[1].guid = call.guid
              /\ \A i \in 1..Len(call.log) : call.log[i].guid = call.guid
              /\ \A d \in DOMAIN calls \ {c} :
                    Started(calls[d]) => calls[d].guid # call.guid

C8_Witness ==
    \E c, d \in DOMAIN calls :
        /\ c # d
        /\ calls[c].entry = "HttpService" /\ calls[d].entry = "HttpService"
        /\ Done(calls[c]) /\ calls[c].invoked = 3 /\ Len(calls[c].log) = 3
        /\ calls[d].pc = "wait" /\ calls[d].invoked = 2
        /\ calls[c].guid # calls[d].guid

ExecutorTexts == {"Starting retry", "Successfully fetched result in retry"}

\* the lines of a call that its retry executor logged
ExecutorLines(call) ==
    {i \in 1..Len(call.log) : call.log[i].state.text \in ExecutorTexts}

Succeeded(call) == call.retryReturn # None /\ call.retryReturn[1].ok

\* C9: in a Retry.retryAsync call every attempt that succeeds and every
\* attempt that fails with budget left logs exactly one executor line, at debug
\* level, and the terminal failing attempt logs none: success on attempt k
\* leaves k executor lines, n failing attempts leave n-1.
C9_ExecutorLines ==
    \A c \in DOMAIN calls :
        LET call == calls[c]
            lines == Cardinality(ExecutorLines(call))
            failedAttempts == Cardinality({i \in 1..Len(call.outcomes) :
                                             ~call.outcomes[i].ok})
        IN (Started(call) /\ HasLogger(Executor(call.entry))) =>
              /\ \A i \in ExecutorLines(call) : call.log[i].level = "debug"
              /\ call.pc = "op" => lines = failedAttempts
              /\ call.pc = "wait" => lines = failedAttempts - 1
              /\ (Done(call) /\ Succeeded(call)) => lines = call.invoked
              /\ (Done(call) /\ ~Succeeded(call)) =>
                    /\ lines = call.invoked - 1
                    /\ (Policy(call).maxRetryCount >= 1 =>
                          lines = Policy(call).maxRetryCount - 1)

C9_Witness ==
    \E c \in DOMAIN calls :
        /\ calls[c].entry = "ApiService" /\ Done(calls[c])
        /\ ~Succeeded(calls[c])
        /\ Policy(calls[c]).maxRetryCount = 3
        /\ Cardinality(ExecutorLines(calls[c])) = 2

\* C10: on success Retry.retryAsync returns the budget in force for the
\* succeeding attempt, n - k + 1 for an initial maxRetryCount n and success on
\* attempt k, so n minus the returned count is the k - 1 retries consumed, the
\* number in HttpService's success line.
C10_BudgetAtSuccess ==
    \A c \in DOMAIN calls :
        LET call == calls[c]
            n == Policy(call).maxRetryCount
            k == call.invoked
        IN (Started(call) /\ HasLogger(Executor(call.entry)) /\ Done(call)
              /\ Succeeded(call)) =>
              /\ call.retryReturn[1].val.retryOptions.maxRetryCount = n - k + 1
              /\ n - call.retryReturn[1].val.retryOptions.maxRetryCount = k - 1
              /\ Len(call.waits) = k - 1
              /\ call.entry = "HttpService" =>
                    /\ Last(call.log).state.text = "Successfully fetched after retries"
                    /\ Last(call.log).state.retries = k - 1

C10_Witness ==
    \E c \in DOMAIN calls :
        /\ calls[c].entry = "Retry" /\ Done(calls[c]) /\ Succeeded(calls[c])
        /\ Policy(calls[c]).maxRetryCount = 3 /\ calls[c].invoked = 2
        /\ calls[c].retryReturn[1].val.retryOptions.maxRetryCount = 2

\* C11: a policy whose maxRetryCount is below 1 behaves like maxRetryCount = 1:
\* one invocation, no wait, no retry announcement, a failure is propagated at
\* once, and the executor never recurses, so no frame runs with a smaller
\* (negative) budget.
C11_BudgetBelowOne ==
    \A c \in DOMAIN calls :
        LET call == calls[c]
        IN (Started(call) /\ Policy(call).maxRetryCount < 1) =>
              /\ call.invoked = 1
              /\ call.pc \in {"op", "done"}
              /\ call.waits = <<>>
              /\ \A i \in 1..Len(call.log) :
                    call.log[i].state.text # "Starting retry"
              /\ call.frame[1].maxRetryCount = Policy(call).maxRetryCount
              /\ Done(call) =>
                    /\ Len(call.outcomes) = 1
                    /\ call.retryReturn[1].ok = call.outcomes[1].ok
                    /\ ~call.outcomes[1].ok =>
                          call.outcome = Some(Rejected(OperationError(1)))

C11_Witness ==
    \E c \in DOMAIN calls :
        /\ Started(calls[c]) /\ Done(calls[c])
        /\ Policy(calls[c]) = [maxRetryCount |-> 0, delayBetweenRetries |-> 100]
        /\ calls[c].invoked = 1
        /\ calls[c].outcome = Some(Rejected(OperationError(1)))

Count(events, kinds) == Cardinality({i \in 1..Len(events) : events[i] \in kinds})

\* invocations of the operation that have not settled yet
InFlight(call) ==
    Count(call.events, {"invoke"}) - Count(call.events, {"fulfilled", "rejected"})

\* C12: the attempts of one retryAsync call are strictly sequential: at most
\* one invocation of the operation is in flight, and an attempt after the first
\* starts only after the previous attempt has failed and the wait that
\* followed that failure has completed; nothing is invoked after a success.
C12_SequentialAttempts ==
    \A c \in DOMAIN calls :
        LET call == calls[c]
            e == call.events
        IN /\ InFlight(call) \in {0, 1}
           /\ InFlight(call) = 1 <=> call.pc = "op"
           /\ Count(e, {"invoke"}) = call.invoked
           /\ \A i \in 1..Len(e) : e[i] = "fulfilled" => i = Len(e)
           /\ \A i \in 2..Len(e) :
                 e[i] = "invoke" =>
                    \E h \in 1..(i - 1), j \in 1..(i - 1) :
                       /\ h < j
                       /\ e[h] = "rejected" /\ e[j] = "waited"
                       /\ \A m \in h..(i - 1) : e[m] \notin {"invoke", "fulfilled"}

C12_Witness ==
    \E c \in DOMAIN calls :
        /\ calls[c].entry = "ApiService" /\ calls[c].pc = "op"
        /\ calls[c].invoked = 3 /\ InFlight(calls[c]) = 1
        /\ Len(calls[c].outcomes) = 2

\* the attempts a budget allows: a budget below 1 still allows the first
Attempts(maxRetryCount) == IF maxRetryCount < 1 THEN 1 ELSE maxRetryCount

SucceedsWithin(call) ==
    /\ OperationSucceedsOn(call) >= 1
    /\ OperationSucceedsOn(call) <= Attempts(Policy(call).maxRetryCount)

\* the invocations a call makes when it runs alone
InvocationsAlone(call) ==
    IF SucceedsWithin(call)
    THEN OperationSucceedsOn(call)
    ELSE Attempts(Policy(call).maxRetryCount)

IndependentOutcome ==
    \A c \in DOMAIN calls :
        LET call == calls[c]
        IN Started(call) =>
              /\ call.invoked <= InvocationsAlone(call)
              /\ \A i \in 1..Len(call.waits) :
                    call.waits[i] = Policy(call).delayBetweenRetries
              /\ Done(call) =>
                    /\ call.invoked = InvocationsAlone(call)
                    /\ Len(call.waits) = InvocationsAlone(call) - 1
                    /\ Succeeded(call) <=> SucceedsWithin(call)
                    /\ Last(call.outcomes) = OperationOutcome(call)
                    /\ call.outcome[1].ok = Last(call.outcomes).ok

\* a step of one call leaves every other call as it was
OwnStepOnly ==
    \A c \in DOMAIN calls :
        calls'[c] # calls[c] =>
            \A d \in DOMAIN calls \ {c} : calls'[d] = calls[d]

\* C13: interleaved calls do not interfere: however two calls interleave at
\* their suspension points, each makes the invocations and waits, and ends in
\* the outcome, that its own policy and its own operation give when it runs
\* alone, and no step of one call changes anything of the other.
C13_NoInterference == []IndependentOutcome /\ [][OwnStepOnly]_vars

C13_Witness ==
    \E c, d \in DOMAIN calls :
        /\ c # d
        /\ calls[c].entry = "Retry" /\ calls[d].entry = "Retry"
        /\ Done(calls[c]) /\ Done(calls[d])
        /\ Policy(calls[c]).maxRetryCount = 3 /\ calls[c].invoked = 3
        /\ ~Succeeded(calls[c])
        /\ Policy(calls[d]).maxRetryCount = 2 /\ calls[d].invoked = 2
        /\ Succeeded(calls[d])
        /\ calls[c].guid = 1 /\ calls[d].guid = 2

\* the lines of a call that announce a retry
AnnouncementLines(call) ==
    {i \in 1..Len(call.log) : call.log[i].state.text = "Starting retry"}

\* C19: after a failed attempt with maxRetryCount > 1 the executor first
\* completes the wait of delayBetweenRetries, then logs one debug line
\* announcing the next attempt with the budget maxRetryCount - 1 and the same
\* correlation id, then invokes the operation again; the operation is never
\* re-invoked before the wait has completed and no wait follows the last
\* failing attempt.
C19_WaitAnnounceInvoke ==
    \A c \in DOMAIN calls :
        LET call == calls[c]
            e == call.events
            n == Policy(call).maxRetryCount
            lines == AnnouncementLines(call)
        IN (Started(call) /\ HasLogger(Executor(call.entry))) =>
              /\ \A i \in 2..Len(e) :
                    e[i] = "invoke" =>
                       /\ i >= 6
                       /\ e[i - 5] = "invoke" /\ e[i - 4] = "rejected"
                       /\ e[i - 3] = "wait" /\ e[i - 2] = "waited"
                       /\ e[i - 1] = "announce"
              /\ \A i \in 1..Len(e) :
                    e[i] = "announce" => (i < Len(e) /\ e[i + 1] = "invoke")
              /\ Cardinality(lines) = Count(e, {"announce"})
              /\ \A i \in lines :
                    /\ call.log[i].level = "debug"
                    /\ call.log[i].guid = call.guid
                    /\ call.log[i].state.maxRetryCount =
                          n - Cardinality({m \in lines : m <= i})
              /\ \A i \in 1..Len(call.waits) :
                    call.waits[i] = Policy(call).delayBetweenRetries
              /\ Count(e, {"wait"}) = Len(call.waits)
              /\ (Done(call) /\ ~Succeeded(call)) =>
                    /\ Last(e) = "rejected"
                    /\ Count(e, {"wait"}) = call.invoked - 1
                    /\ Count(e, {"waited"}) = call.invoked - 1

C19_Witness ==
    \E c \in DOMAIN calls :
        /\ calls[c].entry = "Retry" /\ Done(calls[c]) /\ ~Succeeded(calls[c])
        /\ Policy(calls[c]) = [maxRetryCount |-> 3, delayBetweenRetries |-> 100]
        /\ calls[c].events =
              <<"invoke", "rejected", "wait", "waited", "announce",
                "invoke", "rejected", "wait", "waited", "announce",
                "invoke", "rejected">>
        /\ calls[c].waits = <<100, 100>>

\* the budget in force at the i-th attempt is n - i + 1, with the delay of
\* the initial policy, and no attempt is made with a budget below 1
BudgetInForce ==
    \A c \in DOMAIN calls :
        LET call == calls[c]
            n == Policy(call).maxRetryCount
        IN Started(call) =>
              /\ call.frame[1].delayBetweenRetries = Policy(call).delayBetweenRetries
              /\ call.frame[1].maxRetryCount <= n
              /\ n >= 1 => /\ call.frame[1].maxRetryCount = n - call.invoked + 1
                           /\ call.frame[1].maxRetryCount >= 1

\* a recursive step runs with one less than its parent's budget and with its
\* parent's delay
BudgetStep ==
    \A c \in DOMAIN calls :
        (Started(calls[c]) /\ calls'[c].frame # calls[c].frame) =>
            /\ calls'[c].frame[1].maxRetryCount = calls[c].frame[1].maxRetryCount - 1
            /\ calls'[c].frame[1].delayBetweenRetries =
                  calls[c].frame[1].delayBetweenRetries
            /\ calls'[c].invoked = calls[c].invoked + 1

\* C20: every recursive step of retryAsync runs with a maxRetryCount exactly
\* one less than its parent's and the same delayBetweenRetries; for an initial
\* maxRetryCount n >= 1 the budget at the i-th attempt is n - i + 1, it never
\* increases, and it is never below 1 when an attempt is made.
C20_MonotonicBudget == []BudgetInForce /\ [][BudgetStep]_vars

C20_Witness ==
    \E c \in DOMAIN calls :
        /\ Started(calls[c]) /\ calls[c].pc = "op"
        /\ Policy(calls[c]) = [maxRetryCount |-> 3, delayBetweenRetries |-> 100]
        /\ calls[c].invoked = 3
        /\ calls[c].frame[1].maxRetryCount = 1
        /\ calls[c].frame[1].delayBetweenRetries = 100

(* Log formatter *)

\* the call of logFormatter has returned or thrown
Formatted == formatted.out # None

FormatOutcome == formatted.out[1]

\* every argument is either missing or has content
PlainArguments ==
    /\ formatted.state # Some("")
    /\ formatted.error # Some([message |-> ""])

C15_AllAbsentFails ==
    (/\ Formatted
     /\ formatted.state = None
     /\ formatted.guid = None
     /\ formatted.error = None) =>
        /\ FormatOutcome.threw
        /\ FormatOutcome.message = InvalidInputs
        /\ FormatOutcome # Returned(<<>>)

\* the call without any argument has thrown
C15_Witness ==
    /\ Formatted
    /\ formatted = [NotFormatting EXCEPT !.out = Some(Thrown(InvalidInputs))]

\* C16: logFormatter throws only when state, correlation id and error are
\* all missing; with any of them supplied, a correlation id alone or an
\* error with an empty message included, it returns a string.
C16_FailsOnlyWhenNoneSupplied ==
    (/\ Formatted
     /\ \/ formatted.state # None
        \/ formatted.guid # None
        \/ formatted.error # None) => ~FormatOutcome.threw

(* Leveled logger *)

Severity == [trace |-> 1, debug |-> 2, info |-> 3, warn |-> 4, error |-> 5]

\* the minimum level the logger was built for: trace unless one was given
ConfiguredMinimum ==
    IF console.configured = None THEN "trace" ELSE console.configured[1]

Logged == console.entry # None

LastEntry == console.entry[1]

LastMessage == logFormatter(LastEntry.state, LastEntry.guid, LastEntry.error)

LastRendering ==
    Some(<<toLocaleUpperCase(LastEntry.level), ": ", getUtcDateTimeString,
           " ">> \o LastMessage.text)

\* C18: a logger with minimum level M (trace < debug < info < warn < error,
\* M is trace when ConsoleLogger is built without one) writes nothing for a
\* log call below M and writes exactly one line, rendered through the
\* formatter, for every log call at M or above.
C18_OneLinePerAcceptedCall ==
    Logged =>
        IF Severity[LastEntry.level] < Severity[ConfiguredMinimum]
        THEN console.emitted = LastEntry.before
        ELSE /\ console.emitted = LastEntry.before + 1
             /\ console.line = LastRendering

\* C18 amended: a log call below M writes nothing; a log call at M or above
\* writes exactly one line, rendered through the formatter, when the
\* formatter returns a string, and writes nothing when the formatter throws,
\* the formatter's error ending the call.
C18_OneLinePerFormattedCall ==
    Logged =>
        IF Severity[LastEntry.level] < Severity[ConfiguredMinimum]
        THEN console.emitted = LastEntry.before /\ console.raised = None
        ELSE IF LastMessage.threw
        THEN /\ console.emitted = LastEntry.before
             /\ console.raised = Some(InvalidInputs)
        ELSE /\ console.emitted = LastEntry.before + 1
             /\ console.line = LastRendering
             /\ console.raised = None

\* a logger built for warn wrote one line in three calls and has just
\* dropped an info call
C18_Witness ==
    /\ Logged
    /\ console.configured = Some("warn")
    /\ console.logCalls = 3
    /\ console.emitted = 1
    /\ LastEntry.level = "info"
    /\ LastEntry.before = 1
    /\ console.line # None
    /\ console.line[1][1] \in {"WARN", "ERROR"}

(* Termination *)

InvocationBound ==
    \A c \in DOMAIN calls :
        Started(calls[c]) =>
            calls[c].invoked <= Attempts(Policy(calls[c]).maxRetryCount)

Settled(call) ==
    /\ Done(call)
    /\ call.retryReturn # None
    /\ call.outcome # None

\* C21: when every invocation of the operation and every wait completes, a
\* retryAsync call with any maxRetryCount ends, in a returned value or a
\* thrown error, and it never invokes the operation more than
\* max(1, maxRetryCount) times.
C21_Terminates ==
    /\ []InvocationBound
    /\ Started(calls[Caller]) ~> Settled(calls[Caller])

\* the plain retryAsync has used its whole budget of three and thrown
C21_Witness ==
    /\ calls[Caller].entry = "ApiService.plain"
    /\ Settled(calls[Caller])
    /\ Policy(calls[Caller]).maxRetryCount = 3
    /\ calls[Caller].invoked = 3
    /\ ~calls[Caller].outcome[1].ok

(* Policies are read-only *)

DefaultStillNoRetry == noRetry = [maxRetryCount |-> 1, delayBetweenRetries |-> 0]

\* a step of a call in flight leaves the configuration it was made with and
\* the policy handed to the executor as they were
PoliciesKept ==
    \A c \in DOMAIN calls :
        calls[c].pc # "idle" =>
            /\ calls'[c].options = calls[c].options
            /\ calls'[c].retryConfiguration = calls[c].retryConfiguration

\* C22: whatever facade calls and retries run, succeeding or failing, one
\* after another or interleaved, the caller's configured retryOptions and
\* the shared default policy keep their values (the default stays
\* {maxRetryCount: 1, delayBetweenRetries: 0}); the budget of a retry is a
\* new value.
C22_PoliciesNeverMutated == []DefaultStillNoRetry /\ [][PoliciesKept]_vars

\* two interleaved calls: one is on its last attempt of three with its
\* configured policy intact, the other is waiting to retry
C22_Witness ==
    /\ calls["a"].entry = "HttpService"
    /\ calls["a"].options =
          Some([retryOptions |-> Some([maxRetryCount |-> 3,
                                       delayBetweenRetries |-> 100])])
    /\ calls["a"].frame # None
    /\ calls["a"].frame[1].maxRetryCount = 1
    /\ calls["b"].pc = "wait"
    /\ noRetry = NoRetryPolicy

(* Equivalence of the executors *)

IsMachineEvent(event) == event # "announce"

\* what the executor did, its log calls left out
Machine(call) == SelectSeq(call.events, IsMachineEvent)

Prefix(s, t) == Len(s) <= Len(t) /\ \A i \in 1..Len(s) : s[i] = t[i]

Comparable(s, t) == Prefix(s, t) \/ Prefix(t, s)

\* the executor's outcome with the wrapper taken off
FinalOutcome(call) ==
    IF Succeeded(call) THEN Fulfilled(ResultOf(call)) ELSE call.retryReturn[1]

Working(call) ==
    \/ call.invoked > 0
    \/ call.transport > 0
    \/ call.log # <<>>
    \/ call.frame # None

\* C24: an HttpService or a Retry constructed with a missing logger fails at
\* construction with an invalid-argument error naming the logger, nothing
\* else having happened; so whenever an attempt is made or a line is logged
\* the executor holds the logger that was injected, never none.
C24_LoggerMandatory ==
    \A c \in DOMAIN calls :
        LET call == calls[c]
        IN /\ (call.entry \in {"HttpService", "Retry"} /\ call.logger = None) =>
                /\ Done(call)
                /\ call.outcome = Some(Rejected(ArgumentError("logger")))
                /\ ~Working(call)
                /\ call.guidCount = 0
           /\ (call.entry \in {"HttpService", "Retry"} /\ Working(call)) =>
                call.logger = Some("logger")

\* a Retry was constructed without a logger: the constructor threw and no
\* attempt was made
C24_Witness ==
    \E c \in DOMAIN calls :
        /\ calls[c].entry = "Retry"
        /\ calls[c].logger = None
        /\ calls[c].outcome = Some(Rejected(ArgumentError("logger")))
        /\ calls[c].invoked = 0

(* A logger that throws *)

\* the positions in `events` at which an invocation returned a value
Returns(call) == {i \in 1..Len(call.events) : call.events[i] = "fulfilled"}

\* C25: once an invocation of the operation has returned a value, retryAsync
\* invokes the operation no more in that call and starts no wait, even when
\* the logger throws on the success line.
C25_NoRetryAfterSuccess ==
    \A c \in DOMAIN calls :
        LET call == calls[c]
        IN Started(call) =>
              \A i \in Returns(call) :
                 \A j \in (i + 1)..Len(call.events) :
                    call.events[j] \notin {"invoke", "wait"}

(* The facade's log lines *)

DoingLines(call) ==
    {i \in 1..Len(call.log) : call.log[i].state.text = "Doing a operation on url"}

FetchedLines(call) ==
    {i \in 1..Len(call.log) :
        call.log[i].state.text = "Successfully fetched after retries"}

Position(steps, step) == {i \in 1..Len(steps) : steps[i] = step}

\* C26: in every HttpService call that passes validation the 'Doing a ...
\* operation' line is logged before the transport call is issued and before
\* any executor line, and the 'Successfully fetched ...' line is logged once,
\* after the executor has returned success, and never in a call that ends in
\* a thrown error.
C26_FacadeLinesBracket ==
    \A c \in DOMAIN calls :
        LET call == calls[c]
        IN (call.entry = "HttpService" /\ Started(call)) =>
              /\ DoingLines(call) = {1}
              /\ \A i \in ExecutorLines(call) : i > 1
              /\ Position(call.steps, "doing") = {1}
              /\ Position(call.steps, "request") = {2}
              /\ Position(call.steps, "retryAsync") = {3}
              /\ IF Done(call) /\ Succeeded(call)
                 THEN /\ FetchedLines(call) = {Len(call.log)}
                      /\ \E i \in ExecutorLines(call) :
                            /\ i = Len(call.log) - 1
                            /\ call.log[i].state = FetchedInRetry
                      /\ Position(call.steps, "returned") = {4}
                      /\ Position(call.steps, "fetched") = {5}
                      /\ call.outcome[1].ok
                 ELSE /\ FetchedLines(call) = {}
                      /\ Position(call.steps, "fetched") = {}

\* an HttpService call has failed three times: one facade line, two
\* announcements, no 'Successfully fetched' line
C26_Witness ==
    \E c \in DOMAIN calls :
        /\ calls[c].entry = "HttpService"
        /\ Done(calls[c])
        /\ ~Succeeded(calls[c])
        /\ calls[c].invoked = 3
        /\ Len(calls[c].log) = 3
        /\ DoingLines(calls[c]) = {1}
        /\ FetchedLines(calls[c]) = {}

\* C27: the verb named in the facade's two lines, 'Doing a <verb> operation
\* on url ...' and 'Successfully fetched ... (<verb> operation)', is the verb
\* of the call: a post, put, patch or delete is not logged as a GET.
C27_LoggedVerbIsCallVerb ==
    \A c \in DOMAIN calls :
        LET call == calls[c]
        IN (call.entry = "HttpService" /\ Started(call)) =>
              \A i \in DoingLines(call) \cup FetchedLines(call) :
                 call.log[i].state.verb = call.method

(* The payload guard *)

\* nothing of the call has happened: no id, no line, no request, no executor
Untouched(call) ==
    /\ call.guidCount = 0
    /\ call.guid = 0
    /\ call.log = <<>>
    /\ call.transport = 0
    /\ call.invoked = 0
    /\ call.frame = None
    /\ call.steps = <<>>
    /\ call.events = <<>>

\* C28: HttpService.post, put and patch called with a missing or empty body
\* fail with an invalid-argument error before a correlation id is generated,
\* a line is logged, a transport call is issued or the executor is called;
\* get and delete require no payload.
C28_BodyGuard ==
    \A c \in DOMAIN calls :
        LET call == calls[c]
            goodUrl == call.url \notin {None, Some("")}
            noBody == call.body \in {None, Some("")}
        IN (call.entry = "HttpService" /\ call.pc # "idle" /\ goodUrl) =>
              /\ (call.method \in {"POST", "PUT", "PATCH"} /\ noBody) =>
                    /\ Done(call)
                    /\ call.outcome = Some(Rejected(ArgumentError("body")))
                    /\ Untouched(call)
              /\ (call.method \in {"POST", "PUT", "PATCH"} /\ ~noBody) =>
                    Started(call)
              /\ (call.method \in {"GET", "DELETE"} /\ noBody) =>
                    Started(call)

\* a patch with an empty body was refused with nothing done
C28_Witness ==
    \E c \in DOMAIN calls :
        /\ calls[c].entry = "HttpService"
        /\ calls[c].method = "PATCH"
        /\ calls[c].url = Some("/posts")
        /\ calls[c].body = Some("")
        /\ calls[c].outcome = Some(Rejected(ArgumentError("body")))
        /\ nextGuid = 0

====
